---- MODULE Spec2Model ----
(***************************************************************************)
(* Model of PROYECTO_FINAL.ino: the thermal-comfort controller's loop().   *)
(*                                                                         *)
(* One step of the model is one iteration of loop(): verificarDesbloqueo() *)
(* followed by the case of the switch that the (possibly just changed)     *)
(* estado selects.  The code is sequential, so every function is an        *)
(* operator from a state record to a state record and an iteration is the  *)
(* composition the code performs.                                          *)
(*                                                                         *)
(* PMV values are in hundredths (0.7 is 70).  Time is in milliseconds:     *)
(* now is the real time since boot, millis() is now modulo ClockModulus.  Time     *)
(* advances by the delay() calls of the code; instruction time counts as 0.*)
(***************************************************************************)
EXTENDS Integers, Sequences, FiniteSets, TLC

VARIABLES
  \* globals of the sketch
  estado, usuarioActivo, totalUsuarios, pmv, intentosFallidos,
  alarmActive, alarmSilenced, alarmSilenceUntil, lastAlarmToggle, alarmToggleState,
  pmvBajoActive, lastPmvBajoToggle, pmvBajoToggleState,
  sistemaBloqueado, tiempoBloqueo,
  servoAnguloActual, servoAnguloDeseado, ultimoCambioServo,
  estadoPMVActual, estadoPMVAnterior,
  \* hardware: relay pin, RGB led, servo horn, clock
  relay, color, servoPos, now,
  \* observation of the last iteration (history, not read by the program)
  op, tecla, tTick, bandaPrevia, colorLog, lastMove, gapOk, silenceT,
  \* what the last iteration did, whether its verificarDesbloqueo() unlocked,
  \* and whether its leerClave() returned with the lock overdue
  evento, desbloqueo, claveTarde,
  \* the instants, in time since boot, at which the program's timestamps
  \* ultimoCambioServo, lastAlarmToggle, lastPmvBajoToggle, tiempoBloqueo
  \* were taken, and whether every timing decision of the last iteration came
  \* out as it would with those instants
  rServo, rAlarm, rLow, rLock, relojOk,
  \* the sensor sample last handed to calcularPMV and the index it returned,
  \* and the sample and index before those
  muestra, indice, muestraPrevia, indicePrevio,
  \* number of Comfort ticks made so far (bounds the exploration)
  ticks

vars == <<estado, usuarioActivo, totalUsuarios, pmv, intentosFallidos,
          alarmActive, alarmSilenced, alarmSilenceUntil, lastAlarmToggle, alarmToggleState,
          pmvBajoActive, lastPmvBajoToggle, pmvBajoToggleState,
          sistemaBloqueado, tiempoBloqueo,
          servoAnguloActual, servoAnguloDeseado, ultimoCambioServo,
          estadoPMVActual, estadoPMVAnterior,
          relay, color, servoPos, now,
          op, tecla, tTick, bandaPrevia, colorLog, lastMove, gapOk, silenceT,
          evento, desbloqueo, claveTarde, rServo, rAlarm, rLow, rLock, relojOk,
          muestra, indice, muestraPrevia, indicePrevio, ticks>>

----------------------------------------------------------------------------
\* Program constants

\* unsigned long is 32 bits wide on the target.  TLC's integers are 32-bit
\* signed, so the millisecond counter is modelled 30 bits wide: it wraps the
\* same way, and every interval of the program (at most 60000 ms) is far
\* below either modulus.
ClockModulus == 1073741824
SERVO_DELAY == 3000
DURACION_BLOQUEO == 15000
alarmInterval == 500
pmvBajoOnTime == 100
pmvBajoOffTime == 400
SilenceMs == 60000
PMV_ALARM_THRESHOLD == 70
PMV_BAJO_THRESHOLD == -70
SetupDelay == 1500
MaxUsuarios == 2

\* Bounds of the exploration
Horizon == 9000
PreWrap == 5000
MaxTicks == 3

\* Bounds of the exploration of the lockout: long enough for three failed
\* logins, the 15 s lock and what follows it
HorizonBloqueo == 27000
PreWrapBloqueo == 15000
TicksBloqueo == 2

\* Bounds of the exploration of the blink cadence: one session with enough
\* 200 ms ticks for two toggles, the counter wrapping between activation and
\* the first toggle
HorizonAlarma == 6000
PreWrapAlarma == 4000
TicksAlarma == 7

\* Boot instants explored: right after setup(), and an idle Menu shortly
\* before the millisecond counter wraps.
BootTimes == {SetupDelay, ClockModulus - PreWrap}

\* PMV readings fed to a Comfort tick: every threshold of the code and a
\* value on each side of it, within calcularPMV's clamp [-2.0, 2.0].
PMVValues == {0 - 200, 0 - 81, 0 - 80, 0 - 75, 0 - 70, 0 - 65, 0 - 60, 0 - 59,
              0 - 41, 0 - 40, 0, 35, 40, 41, 59, 60, 65, 70, 75, 80, 81, 200}

\* For the lockout: a boot such that the counter wraps during the lock, a
\* PMV reading that raises the alarm, the exit key as the only Comfort key, a
\* PIN typed at once or in 2.5 s
BootBloqueo == {SetupDelay, ClockModulus - PreWrapBloqueo}
PMVBloqueo == {75}
TeclasBloqueo == {"none", "#"}
EsperasBloqueo == {0, 2500}

\* For the blink cadence: a PMV reading on each side of the alarm threshold
BootAlarma == {SetupDelay, ClockModulus - PreWrapAlarma}
PMVAlarma == {65, 75}

ComfortKeys == {"none", "*", "#"}
MenuKeys == {"none", "1", "2"}
IdleSteps == {3000}
PinWaits == {0}

Rojo == <<TRUE, FALSE, FALSE>>
Amarillo == <<TRUE, TRUE, FALSE>>
Verde == <<FALSE, TRUE, FALSE>>
Cian == <<FALSE, TRUE, TRUE>>
Azul == <<FALSE, FALSE, TRUE>>
Apagado == <<FALSE, FALSE, FALSE>>

----------------------------------------------------------------------------
\* The state as a record, and its installation as the next state

Cur ==
  [estado |-> estado, usuarioActivo |-> usuarioActivo, totalUsuarios |-> totalUsuarios,
   pmv |-> pmv, intentosFallidos |-> intentosFallidos,
   alarmActive |-> alarmActive, alarmSilenced |-> alarmSilenced,
   alarmSilenceUntil |-> alarmSilenceUntil, lastAlarmToggle |-> lastAlarmToggle,
   alarmToggleState |-> alarmToggleState,
   pmvBajoActive |-> pmvBajoActive, lastPmvBajoToggle |-> lastPmvBajoToggle,
   pmvBajoToggleState |-> pmvBajoToggleState,
   sistemaBloqueado |-> sistemaBloqueado, tiempoBloqueo |-> tiempoBloqueo,
   servoAnguloActual |-> servoAnguloActual, servoAnguloDeseado |-> servoAnguloDeseado,
   ultimoCambioServo |-> ultimoCambioServo,
   estadoPMVActual |-> estadoPMVActual, estadoPMVAnterior |-> estadoPMVAnterior,
   relay |-> relay, color |-> color, servoPos |-> servoPos, now |-> now,
   op |-> op, tecla |-> tecla, tTick |-> tTick, bandaPrevia |-> bandaPrevia,
   colorLog |-> colorLog, lastMove |-> lastMove, gapOk |-> gapOk, silenceT |-> silenceT,
   evento |-> evento, desbloqueo |-> desbloqueo, claveTarde |-> claveTarde,
   rServo |-> rServo, rAlarm |-> rAlarm, rLow |-> rLow, rLock |-> rLock,
   relojOk |-> relojOk, muestra |-> muestra, indice |-> indice,
   muestraPrevia |-> muestraPrevia, indicePrevio |-> indicePrevio, ticks |-> ticks]

Install(r) ==
  /\ estado' = r.estado /\ usuarioActivo' = r.usuarioActivo
  /\ totalUsuarios' = r.totalUsuarios
  /\ pmv' = r.pmv /\ intentosFallidos' = r.intentosFallidos
  /\ alarmActive' = r.alarmActive /\ alarmSilenced' = r.alarmSilenced
  /\ alarmSilenceUntil' = r.alarmSilenceUntil /\ lastAlarmToggle' = r.lastAlarmToggle
  /\ alarmToggleState' = r.alarmToggleState
  /\ pmvBajoActive' = r.pmvBajoActive /\ lastPmvBajoToggle' = r.lastPmvBajoToggle
  /\ pmvBajoToggleState' = r.pmvBajoToggleState
  /\ sistemaBloqueado' = r.sistemaBloqueado /\ tiempoBloqueo' = r.tiempoBloqueo
  /\ servoAnguloActual' = r.servoAnguloActual /\ servoAnguloDeseado' = r.servoAnguloDeseado
  /\ ultimoCambioServo' = r.ultimoCambioServo
  /\ estadoPMVActual' = r.estadoPMVActual /\ estadoPMVAnterior' = r.estadoPMVAnterior
  /\ relay' = r.relay /\ color' = r.color /\ servoPos' = r.servoPos /\ now' = r.now
  /\ op' = r.op /\ tecla' = r.tecla /\ tTick' = r.tTick /\ bandaPrevia' = r.bandaPrevia
  /\ colorLog' = r.colorLog /\ lastMove' = r.lastMove /\ gapOk' = r.gapOk
  /\ silenceT' = r.silenceT /\ ticks' = r.ticks
  /\ evento' = r.evento /\ desbloqueo' = r.desbloqueo /\ claveTarde' = r.claveTarde
  /\ rServo' = r.rServo /\ rAlarm' = r.rAlarm /\ rLow' = r.rLow /\ rLock' = r.rLock
  /\ relojOk' = r.relojOk
  /\ muestra' = r.muestra /\ indice' = r.indice
  /\ muestraPrevia' = r.muestraPrevia /\ indicePrevio' = r.indicePrevio

----------------------------------------------------------------------------
\* Arduino core and peripherals

\* millis(): the unsigned millisecond counter
Millis(s) == s.now % ClockModulus

\* unsigned long subtraction and addition
SubUL(a, b) == (a - b + ClockModulus) % ClockModulus
AddUL(a, b) == (a + b) % ClockModulus

\* delay(ms)
Delay(s, ms) == [s EXCEPT !.now = @ + ms]

\* beep(n): n tones, delay(250) after each
Beep(s, n) == Delay(s, 250 * n)

\* setColor(r, g, b), noting which subsystem wrote and the alert flags it saw
SetColor(s, who, c) ==
  [s EXCEPT !.color = c,
            !.colorLog = Append(@, <<who, s.alarmActive, s.pmvBajoActive>>)]

\* servo.write(a): the horn moves when a differs from its position
ServoWrite(s, a) ==
  IF a = s.servoPos THEN s
  ELSE [s EXCEPT !.servoPos = a,
                 !.gapOk = (s.now - s.lastMove >= SERVO_DELAY),
                 !.lastMove = s.now]

\* A timing decision: codigo is the outcome the program computes from
\* millis() and a stored timestamp, real the outcome for the same instants in
\* time since boot
Decision(s, codigo, real) == [s EXCEPT !.relojOk = @ /\ (codigo = real)]

----------------------------------------------------------------------------
\* Comfort index

\* Temperatures are in tenths of a degree, humidity in percent, light in ADC
\* counts.  The index is in units of 1/28000, in which every term of
\* calcularPMV is an integer for these inputs: the float computation is
\* modelled by the exact value it rounds.
Unidad == 28000

\* NaN, which dht.readTemperature() and dht.readHumidity() return on a failed
\* read; not a number of any grid
NaN == 0 - 999999

\* constrain(amt, low, high): NaN compares false and passes through
Constrain(amt, low, high) ==
  IF amt = NaN THEN NaN ELSE IF amt < low THEN low ELSE IF amt > high THEN high ELSE amt

\* Variant of calcularPMV without the final constrain
CalcularPMV_SinLimite(tDHT, tAnalog, h, luz) ==
  IF tDHT = NaN \/ tAnalog = NaN \/ h = NaN THEN NaN
  ELSE LET factorHumedad == IF h < 40 THEN 0 - 140 * (40 - h)
                            ELSE IF h > 60 THEN 210 * (h - 60) ELSE 0
           factorLuz == Constrain(6 * (luz - 300), 0 - 4200, 4200)
           desviacionTemp == tDHT + tAnalog - 460
       IN 350 * desviacionTemp + factorHumedad + factorLuz

\* Variant of calcularPMV whose temperature term is the distance from the
\* comfort temperature
CalcularPMV_Distancia(tDHT, tAnalog, h, luz) ==
  IF tDHT = NaN \/ tAnalog = NaN \/ h = NaN THEN NaN
  ELSE LET factorHumedad == IF h < 40 THEN 0 - 140 * (40 - h)
                            ELSE IF h > 60 THEN 210 * (h - 60) ELSE 0
           factorLuz == Constrain(6 * (luz - 300), 0 - 4200, 4200)
           desviacionTemp == tDHT + tAnalog - 460
           distancia == IF desviacionTemp < 0 THEN 0 - desviacionTemp ELSE desviacionTemp
       IN Constrain(350 * distancia + factorHumedad + factorLuz,
                    0 - 2 * Unidad, 2 * Unidad)

\* calcularPMV(tDHT, tAnalog, h, luz):
\*   tProm - 23 is (tDHT + tAnalog - 460) / 20 degrees, times 0.25 is
\*   350 * (tDHT + tAnalog - 460) / 28000;
\*   (40 - h) / 40 * (-0.2) is -140 * (40 - h) / 28000;
\*   (h - 60) / 40 * 0.3 is 210 * (h - 60) / 28000;
\*   (luz - 300) / 700 * 0.15 is 6 * (luz - 300) / 28000, and 0.15 is 4200 / 28000
CalcularPMV(tDHT, tAnalog, h, luz) ==
  IF tDHT = NaN \/ tAnalog = NaN \/ h = NaN THEN NaN
  ELSE LET factorHumedad == IF h < 40 THEN 0 - 140 * (40 - h)
                            ELSE IF h > 60 THEN 210 * (h - 60) ELSE 0
           factorLuz == Constrain(6 * (luz - 300), 0 - 4200, 4200)
           desviacionTemp == tDHT + tAnalog - 460
       IN Constrain(350 * desviacionTemp + factorHumedad + factorLuz,
                    0 - 2 * Unidad, 2 * Unidad)

\* case CONFORT, the sample handed to calcularPMV: a failed DHT read is
\* replaced by 25.0 degrees and 50 percent
Muestreo(tDHT, tAnalog, h, luz) ==
  IF tDHT = NaN \/ h = NaN
  THEN [tDHT |-> 250, tAnalog |-> tAnalog, h |-> 50, luz |-> luz]
  ELSE [tDHT |-> tDHT, tAnalog |-> tAnalog, h |-> h, luz |-> luz]

\* Before any reading pmv is 0.0: a sample whose index is 0.0 stands for it
SinMuestra == [tDHT |-> 230, tAnalog |-> 230, h |-> 50, luz |-> 300]

\* Sensor readings explored: temperatures at which the index is clamped on
\* either side and in between, humidity and light on each piece of their
\* factors, and the failed DHT read
LecturasDHT == {NaN, 0 - 400, 229, 230, 1000}
LecturasAnalog == {0, 250}
LecturasHumedad == {NaN, 0, 50, 100}
LecturasLuz == {0, 300, 1023}

----------------------------------------------------------------------------
\* Comfort hysteresis engine

\* Variant of actualizarServo that stores the desired angle only when it moves
ActualizarServo_DeseadoAlMover(s, anguloDeseado) ==
  IF /\ s.servoAnguloActual # anguloDeseado
     /\ SubUL(Millis(s), s.ultimoCambioServo) >= SERVO_DELAY
  THEN [ServoWrite(s, anguloDeseado)
          EXCEPT !.servoAnguloDeseado = anguloDeseado,
                 !.servoAnguloActual = anguloDeseado,
                 !.ultimoCambioServo = Millis(s), !.rServo = s.now]
  ELSE s

\* Variant of actualizarServo that tries to move only in the call that
\* changes the desired angle
ActualizarServo_SoloAlCambiar(s, anguloDeseado) ==
  IF anguloDeseado # s.servoAnguloDeseado
  THEN LET s1 == [s EXCEPT !.servoAnguloDeseado = anguloDeseado]
       IN IF /\ s1.servoAnguloActual # s1.servoAnguloDeseado
             /\ SubUL(Millis(s1), s1.ultimoCambioServo) >= SERVO_DELAY
          THEN [ServoWrite(s1, s1.servoAnguloDeseado)
                  EXCEPT !.servoAnguloActual = s1.servoAnguloDeseado,
                         !.ultimoCambioServo = Millis(s1), !.rServo = s1.now]
          ELSE s1
  ELSE s

\* actualizarServo(anguloDeseado)
ActualizarServo(s, anguloDeseado) ==
  LET s1 == [s EXCEPT !.servoAnguloDeseado = anguloDeseado]
      listo == SubUL(Millis(s1), s1.ultimoCambioServo) >= SERVO_DELAY
      s2 == Decision(s1, listo, s1.now - s1.rServo >= SERVO_DELAY)
  IN IF s1.servoAnguloActual # s1.servoAnguloDeseado
     THEN (IF listo
           THEN [ServoWrite(s2, s2.servoAnguloDeseado)
                   EXCEPT !.servoAnguloActual = s2.servoAnguloDeseado,
                          !.ultimoCambioServo = Millis(s2), !.rServo = s2.now]
           ELSE s2)
     ELSE s1

\* Variant of the chain in which VeryHigh is left at pmvVal <= 0.6 and
\* VeryLow at pmvVal >= -0.6
NuevoEstado_BordeInclusivo(pmvVal, actual) ==
  IF pmvVal > 80 THEN "PMV_MUY_CALOR"
  ELSE IF pmvVal > 40 THEN
         (IF actual # "PMV_MUY_CALOR" \/ pmvVal <= 60 THEN "PMV_CALOR" ELSE actual)
  ELSE IF pmvVal >= -40 /\ pmvVal <= 40 THEN "PMV_CONFORT"
  ELSE IF pmvVal < 30 /\ pmvVal >= -80 THEN
         (IF actual # "PMV_MUY_BAJO" \/ pmvVal >= -60 THEN "PMV_BAJO" ELSE actual)
  ELSE IF pmvVal < -80 THEN "PMV_MUY_BAJO"
  ELSE actual

\* Variant of the chain with the Low test placed before the Neutral test
NuevoEstado_BajoPrimero(pmvVal, actual) ==
  IF pmvVal > 80 THEN "PMV_MUY_CALOR"
  ELSE IF pmvVal > 40 THEN
         (IF actual # "PMV_MUY_CALOR" \/ pmvVal < 60 THEN "PMV_CALOR" ELSE actual)
  ELSE IF pmvVal < 30 /\ pmvVal >= -80 THEN
         (IF actual # "PMV_MUY_BAJO" \/ pmvVal > -60 THEN "PMV_BAJO" ELSE actual)
  ELSE IF pmvVal >= -40 /\ pmvVal <= 40 THEN "PMV_CONFORT"
  ELSE IF pmvVal < -80 THEN "PMV_MUY_BAJO"
  ELSE actual

\* setActuador, first part: the if/else chain that picks nuevoEstado
NuevoEstado(pmvVal, actual) ==
  IF pmvVal > 80 THEN "PMV_MUY_CALOR"
  ELSE IF pmvVal > 40 THEN
         (IF actual # "PMV_MUY_CALOR" \/ pmvVal < 60 THEN "PMV_CALOR" ELSE actual)
  ELSE IF pmvVal >= -40 /\ pmvVal <= 40 THEN "PMV_CONFORT"
  ELSE IF pmvVal < 30 /\ pmvVal >= -80 THEN
         (IF actual # "PMV_MUY_BAJO" \/ pmvVal > -60 THEN "PMV_BAJO" ELSE actual)
  ELSE IF pmvVal < -80 THEN "PMV_MUY_BAJO"
  ELSE actual

\* setActuador, second part: switch (estadoPMVActual)
AplicarEstado(s) ==
  CASE s.estadoPMVActual = "PMV_MUY_CALOR" ->
         LET a == ActualizarServo([s EXCEPT !.relay = TRUE], 0)
         IN IF ~a.alarmActive THEN SetColor(a, "hysteresis", Rojo) ELSE a
    [] s.estadoPMVActual = "PMV_CALOR" ->
         LET a == ActualizarServo([s EXCEPT !.relay = TRUE], 45)
         IN IF ~a.alarmActive /\ ~a.pmvBajoActive
            THEN SetColor(a, "hysteresis", Amarillo) ELSE a
    [] s.estadoPMVActual = "PMV_CONFORT" ->
         LET a == ActualizarServo([s EXCEPT !.relay = FALSE], 90)
         IN IF ~a.alarmActive /\ ~a.pmvBajoActive
            THEN SetColor(a, "hysteresis", Verde) ELSE a
    [] s.estadoPMVActual = "PMV_BAJO" ->
         LET a == ActualizarServo([s EXCEPT !.relay = FALSE], 135)
         IN IF ~a.pmvBajoActive THEN SetColor(a, "hysteresis", Cian) ELSE a
    [] s.estadoPMVActual = "PMV_MUY_BAJO" ->
         ActualizarServo([s EXCEPT !.relay = FALSE], 180)

\* setActuador(pmvVal)
SetActuador(s, pmvVal) ==
  LET nuevoEstado == NuevoEstado(pmvVal, s.estadoPMVActual)
  IN AplicarEstado(IF nuevoEstado # s.estadoPMVActual
                   THEN [s EXCEPT !.estadoPMVAnterior = s.estadoPMVActual,
                                  !.estadoPMVActual = nuevoEstado]
                   ELSE s)

----------------------------------------------------------------------------
\* High-PMV alarm

\* triggerAlarm()
TriggerAlarm(s) ==
  SetColor([s EXCEPT !.alarmActive = TRUE, !.alarmToggleState = FALSE,
                     !.lastAlarmToggle = Millis(s), !.rAlarm = s.now], "alarm", Rojo)

\* stopAlarm(), with its delay(800)
StopAlarm(s) ==
  Delay(SetColor([s EXCEPT !.alarmActive = FALSE, !.alarmToggleState = FALSE],
                 "alarm", Verde), 800)

\* Variant of checkAlarm that never stops an active alarm
CheckAlarm_SinParada(s, pmvVal) ==
  IF s.alarmSilenced /\ Millis(s) < s.alarmSilenceUntil THEN s
  ELSE LET s1 == [s EXCEPT !.alarmSilenced = FALSE]
       IN IF pmvVal > PMV_ALARM_THRESHOLD /\ ~s1.alarmActive THEN TriggerAlarm(s1) ELSE s1

\* checkAlarm(pmvVal)
CheckAlarm(s, pmvVal) ==
  LET s0 == IF s.alarmSilenced
            THEN Decision(s, Millis(s) < s.alarmSilenceUntil,
                          s.now < s.silenceT + SilenceMs)
            ELSE s
  IN
  IF s0.alarmSilenced /\ Millis(s0) < s0.alarmSilenceUntil THEN s0
  ELSE LET s1 == [s0 EXCEPT !.alarmSilenced = FALSE]
       IN IF pmvVal > PMV_ALARM_THRESHOLD
          THEN (IF ~s1.alarmActive THEN TriggerAlarm(s1) ELSE s1)
          ELSE (IF s1.alarmActive THEN StopAlarm(s1) ELSE s1)

\* Variant of alarmHandler that toggles on every call
AlarmHandler_CadaTick(s) ==
  SetColor([s EXCEPT !.lastAlarmToggle = Millis(s), !.rAlarm = s.now,
                     !.alarmToggleState = ~s.alarmToggleState],
           "alarm", IF ~s.alarmToggleState THEN Rojo ELSE Apagado)

\* alarmHandler()
AlarmHandler(s) ==
  LET cambia == SubUL(Millis(s), s.lastAlarmToggle) >= alarmInterval
      s1 == Decision(s, cambia, s.now - s.rAlarm >= alarmInterval)
  IN IF cambia
     THEN SetColor([s1 EXCEPT !.lastAlarmToggle = Millis(s1), !.rAlarm = s1.now,
                              !.alarmToggleState = ~s1.alarmToggleState],
                   "alarm", IF ~s1.alarmToggleState THEN Rojo ELSE Apagado)
     ELSE s1

----------------------------------------------------------------------------
\* Low-PMV indicator

\* triggerPmvBajo()
TriggerPmvBajo(s) ==
  SetColor([s EXCEPT !.pmvBajoActive = TRUE, !.pmvBajoToggleState = TRUE,
                     !.lastPmvBajoToggle = Millis(s), !.rLow = s.now], "low", Azul)

\* stopPmvBajo()
StopPmvBajo(s) == [s EXCEPT !.pmvBajoActive = FALSE, !.pmvBajoToggleState = FALSE]

\* Variant of checkPmvBajo with the threshold at 0.7 instead of -0.7
CheckPmvBajo_UmbralPositivo(s, pmvVal) ==
  IF pmvVal < 0 - PMV_BAJO_THRESHOLD
  THEN (IF ~s.pmvBajoActive THEN TriggerPmvBajo(s) ELSE s)
  ELSE (IF s.pmvBajoActive THEN StopPmvBajo(s) ELSE s)

\* checkPmvBajo(pmvVal)
CheckPmvBajo(s, pmvVal) ==
  IF pmvVal < PMV_BAJO_THRESHOLD
  THEN (IF ~s.pmvBajoActive THEN TriggerPmvBajo(s) ELSE s)
  ELSE (IF s.pmvBajoActive THEN StopPmvBajo(s) ELSE s)

\* pmvBajoHandler()
PmvBajoHandler(s) ==
  LET interval == IF s.pmvBajoToggleState THEN pmvBajoOnTime ELSE pmvBajoOffTime
      cambia == SubUL(Millis(s), s.lastPmvBajoToggle) >= interval
      s1 == Decision(s, cambia, s.now - s.rLow >= interval)
  IN IF cambia
     THEN SetColor([s1 EXCEPT !.lastPmvBajoToggle = Millis(s1), !.rLow = s1.now,
                              !.pmvBajoToggleState = ~s1.pmvBajoToggleState],
                   "low", IF ~s1.pmvBajoToggleState THEN Azul ELSE Apagado)
     ELSE s1

----------------------------------------------------------------------------
\* Lockout

\* Variant of bloqueoSistema that leaves the failure counter as it is
BloqueoSistema_SinReinicio(s) ==
  Delay(SetColor([s EXCEPT !.sistemaBloqueado = TRUE, !.tiempoBloqueo = Millis(s),
                           !.rLock = s.now],
                 "lockout", Rojo), 2500)

\* bloqueoSistema(), with its ten delay(250)
BloqueoSistema(s) ==
  Delay(SetColor([s EXCEPT !.sistemaBloqueado = TRUE, !.tiempoBloqueo = Millis(s),
                           !.rLock = s.now, !.intentosFallidos = 0],
                 "lockout", Rojo), 2500)

\* Variant of verificarDesbloqueo that compares millis() with the timestamp
\* tiempoBloqueo + DURACION_BLOQUEO instead of subtracting
VerificarDesbloqueo_Comparacion(s) ==
  IF s.sistemaBloqueado
  THEN IF Millis(s) >= AddUL(s.tiempoBloqueo, DURACION_BLOQUEO)
       THEN LET a == SetColor([s EXCEPT !.sistemaBloqueado = FALSE, !.desbloqueo = TRUE],
                              "lockout", Azul)
                b == Delay(Beep(a, 2), 1500)
            IN [b EXCEPT !.estado = "MENU", !.usuarioActivo = 0]
       ELSE SetColor(s, "lockout", Rojo)
  ELSE s

\* verificarDesbloqueo()
VerificarDesbloqueo(s) ==
  IF s.sistemaBloqueado
  THEN LET tiempoTranscurrido == SubUL(Millis(s), s.tiempoBloqueo)
           s1 == Decision(s, tiempoTranscurrido >= DURACION_BLOQUEO,
                          s.now - s.rLock >= DURACION_BLOQUEO)
       IN IF tiempoTranscurrido >= DURACION_BLOQUEO
          THEN LET a == SetColor([s1 EXCEPT !.sistemaBloqueado = FALSE, !.desbloqueo = TRUE],
                                 "lockout", Azul)
                   b == Delay(Beep(a, 2), 1500)
               IN [b EXCEPT !.estado = "MENU", !.usuarioActivo = 0]
          ELSE SetColor(s1, "lockout",
                        IF (tiempoTranscurrido \div 500) % 2 = 0 THEN Rojo ELSE Apagado)
  ELSE s

----------------------------------------------------------------------------
\* Session: the three cases of loop()'s switch

\* The servo reset made on entering Comfort (login success, registration)
EntrarConfort(s) ==
  LET a == ServoWrite([s EXCEPT !.servoAnguloActual = 90, !.servoAnguloDeseado = 90], 90)
  IN [a EXCEPT !.ultimoCambioServo = Millis(a), !.rServo = a.now]

\* registrarPorTag(); confirma: the second tag read equals the first.
\* The blocking reads (tag, name, PIN) take no more than their delay() calls.
RegistrarPorTag(s, confirma) ==
  IF s.totalUsuarios >= MaxUsuarios
  THEN [Delay(Beep(s, 1), 1500) EXCEPT !.evento = "registro-lleno"]
  ELSE LET a == Delay(Beep(Delay(s, 100), 2), 2000)
           b == [a EXCEPT !.totalUsuarios = @ + 1]
           c == Delay(Delay(Delay(Beep(b, 3), 2000), 1000), 100)
       IN IF confirma
          THEN LET d == Delay(Beep(c, 3), 1500)
                   e == EntrarConfort([d EXCEPT !.usuarioActivo = d.totalUsuarios])
               IN [e EXCEPT !.estado = "CONFORT", !.evento = "registro-ok"]
          ELSE [Delay(Beep(c, 1), 2000) EXCEPT !.estado = "MENU", !.evento = "registro-no"]

\* case MENU; an iteration without a key spends idle ms
CasoMenu(s, key, confirma, idle) ==
  IF key = "1" THEN [s EXCEPT !.estado = "LOGIN", !.evento = "key1"]
  ELSE IF key = "2" THEN RegistrarPorTag(s, confirma)
  ELSE [Delay(s, idle) EXCEPT !.evento = "idle"]

\* case LOGIN; tag: 0 no card, 1..totalUsuarios the card of that user,
\* totalUsuarios + 1 an unregistered card; espera: the time leerClave blocks
CasoLogin(s, tag, claveOk, espera, idle) ==
  IF tag = 0 THEN [Delay(s, idle) EXCEPT !.evento = "idle"]
  ELSE IF tag > s.totalUsuarios
  THEN [Delay(Beep(s, 1), 2000) EXCEPT !.estado = "MENU", !.evento = "tag-desconocido"]
  ELSE LET a0 == Delay(Delay(Beep([s EXCEPT !.usuarioActivo = tag], 2), 1000), espera)
           a == [a0 EXCEPT !.evento = IF claveOk THEN "clave-ok" ELSE "clave-mala",
                           !.claveTarde = /\ a0.sistemaBloqueado
                                          /\ a0.now - a0.rLock >= DURACION_BLOQUEO]
       IN IF claveOk
          THEN LET b == Delay(SetColor(Beep([a EXCEPT !.intentosFallidos = 0], 3),
                                       "session", Verde), 1500)
                   c == EntrarConfort(b)
               IN [c EXCEPT !.estadoPMVActual = "PMV_CONFORT",
                            !.estadoPMVAnterior = "PMV_CONFORT",
                            !.estado = "CONFORT"]
          ELSE LET b == Delay(SetColor(Beep([a EXCEPT !.intentosFallidos = @ + 1], 1),
                                       "session", Rojo), 1500)
                   c == IF b.intentosFallidos >= 3 THEN BloqueoSistema(b) ELSE b
               IN [c EXCEPT !.estado = "MENU"]

\* case CONFORT, branch if (alarmActive)
RamaAlarma(s, k) ==
  LET a == AlarmHandler(s)
      b == IF k = "*"
           THEN LET c == StopAlarm(a)
                IN [c EXCEPT !.alarmSilenced = TRUE,
                             !.alarmSilenceUntil = AddUL(Millis(c), SilenceMs),
                             !.silenceT = c.now]
           ELSE a
  IN IF k = "#"
     THEN LET c == StopPmvBajo(StopAlarm(b))
          IN ServoWrite([c EXCEPT !.estado = "MENU", !.usuarioActivo = 0,
                                  !.intentosFallidos = 0, !.servoAnguloActual = 90,
                                  !.evento = "salida"], 90)
     ELSE LET d == IF b.alarmSilenced
                   THEN Decision(b, Millis(b) > b.alarmSilenceUntil,
                                 b.now > b.silenceT + SilenceMs)
                   ELSE b
          IN Delay(IF d.alarmSilenced /\ Millis(d) > d.alarmSilenceUntil
                   THEN [d EXCEPT !.alarmSilenced = FALSE] ELSE d, 200)

\* Variant of the pmvBajoActive branch whose exit key stops the indicator
\* and the servo but leaves the session as it is
RamaBajo_SinSalida(s, k) ==
  LET a == PmvBajoHandler(s)
  IN IF k = "#"
     THEN ServoWrite([StopPmvBajo(a) EXCEPT !.evento = "salida"], 90)
     ELSE Delay(a, 200)

\* case CONFORT, branch else if (pmvBajoActive)
RamaBajo(s, k) ==
  LET a == PmvBajoHandler(s)
  IN IF k = "#"
     THEN ServoWrite([StopPmvBajo(a) EXCEPT !.estado = "MENU", !.usuarioActivo = 0,
                                            !.evento = "salida"], 90)
     ELSE Delay(a, 200)

\* case CONFORT, branch else
RamaNormal(s, k) ==
  IF k = "#"
  THEN SetColor(ServoWrite([s EXCEPT !.estado = "MENU", !.usuarioActivo = 0,
                                     !.evento = "salida"], 90),
                "session", Azul)
  ELSE Delay(Delay(s, 2000), 2000)

\* case CONFORT; pmvVal: what calcularPMV returns for this tick's sample
CasoConfort(s, pmvVal, k) ==
  LET s1 == [s EXCEPT !.pmv = pmvVal, !.tTick = s.now,
                      !.bandaPrevia = s.estadoPMVActual, !.evento = "tick"]
      s2 == CheckPmvBajo(CheckAlarm(SetActuador(s1, pmvVal), pmvVal), pmvVal)
  IN IF s2.alarmActive THEN RamaAlarma(s2, k)
     ELSE IF s2.pmvBajoActive THEN RamaBajo(s2, k)
     ELSE RamaNormal(s2, k)

\* The start of an iteration: verificarDesbloqueo(), with this iteration's
\* observation started afresh
Comienzo(nombre, k) ==
  VerificarDesbloqueo([Cur EXCEPT !.op = nombre, !.tecla = k, !.colorLog = <<>>,
                                  !.tTick = 0, !.bandaPrevia = "PMV_CONFORT",
                                  !.evento = "none", !.desbloqueo = FALSE,
                                  !.claveTarde = FALSE, !.relojOk = TRUE])

----------------------------------------------------------------------------
\* The state machine

\* An iteration may start up to h ms after a boot instant
InWindow(boots, t, h) == \E b \in boots : b <= t /\ t <= b + h

\* The state after setup(), at one of the instants boots
Arranque(boots) ==
  /\ estado = "MENU" /\ usuarioActivo = 0 /\ totalUsuarios = 1
  /\ pmv = 0 /\ intentosFallidos = 0
  /\ alarmActive = FALSE /\ alarmSilenced = FALSE /\ alarmSilenceUntil = 0
  /\ lastAlarmToggle = 0 /\ alarmToggleState = FALSE
  /\ pmvBajoActive = FALSE /\ lastPmvBajoToggle = 0 /\ pmvBajoToggleState = FALSE
  /\ sistemaBloqueado = FALSE /\ tiempoBloqueo = 0
  /\ servoAnguloActual = 90 /\ servoAnguloDeseado = 90 /\ ultimoCambioServo = 0
  /\ estadoPMVActual = "PMV_CONFORT" /\ estadoPMVAnterior = "PMV_CONFORT"
  /\ relay = FALSE /\ color = Azul /\ servoPos = 90
  /\ now \in boots
  /\ op = "setup" /\ tecla = "none" /\ tTick = 0 /\ bandaPrevia = "PMV_CONFORT"
  /\ colorLog = <<>> /\ lastMove = 0 /\ gapOk = TRUE /\ silenceT = 0 - 1
  /\ evento = "setup" /\ desbloqueo = FALSE /\ claveTarde = FALSE
  /\ rServo = 0 /\ rAlarm = 0 /\ rLow = 0 /\ rLock = 0 - 1 /\ relojOk = TRUE
  /\ muestra = SinMuestra /\ indice = 0
  /\ muestraPrevia = SinMuestra /\ indicePrevio = 0
  /\ ticks = 0

Init == Arranque(BootTimes)

LoopMenu(boots, h) ==
  \E key \in MenuKeys, confirma \in BOOLEAN, idle \in IdleSteps :
    LET s == Comienzo("menu", key)
    IN InWindow(boots, now, h) /\ s.estado = "MENU"
       /\ Install(CasoMenu(s, key, confirma, idle))

LoopLogin(boots, h, esperas) ==
  \E tag \in 0..(totalUsuarios + 1), claveOk \in BOOLEAN,
     espera \in esperas, idle \in IdleSteps :
    LET s == Comienzo("login", "none")
    IN InWindow(boots, now, h) /\ s.estado = "LOGIN"
       /\ Install(CasoLogin(s, tag, claveOk, espera, idle))

LoopConfort(boots, h, valores, teclas, maxTicks) ==
  \E pmvVal \in valores, k \in teclas :
    LET s == Comienzo("confort", k)
    IN InWindow(boots, now, h) /\ ticks < maxTicks /\ s.estado = "CONFORT"
       /\ Install(CasoConfort([s EXCEPT !.ticks = @ + 1], pmvVal, k))

Next ==
  \/ LoopMenu(BootTimes, Horizon)
  \/ LoopLogin(BootTimes, Horizon, PinWaits)
  \/ LoopConfort(BootTimes, Horizon, PMVValues, ComfortKeys, MaxTicks)

Spec == Init /\ [][Next]_vars

\* The same program explored over the lockout's time span
InitBloqueo == Arranque(BootBloqueo)

NextBloqueo ==
  \/ LoopMenu(BootBloqueo, HorizonBloqueo)
  \/ LoopLogin(BootBloqueo, HorizonBloqueo, EsperasBloqueo)
  \/ LoopConfort(BootBloqueo, HorizonBloqueo, PMVBloqueo, TeclasBloqueo, TicksBloqueo)

SpecBloqueo == InitBloqueo /\ [][NextBloqueo]_vars

\* case CONFORT, from the sensor reads to pmv = calcularPMV(...): the index
\* computed for any reading of the sensors, whatever the previous one
Medir ==
  \E tDHT \in LecturasDHT, tAnalog \in LecturasAnalog,
     h \in LecturasHumedad, luz \in LecturasLuz :
    LET m == Muestreo(tDHT, tAnalog, h, luz)
    IN Install([Cur EXCEPT !.op = "medir",
                           !.muestraPrevia = muestra, !.indicePrevio = indice,
                           !.muestra = m,
                           !.indice = CalcularPMV(m.tDHT, m.tAnalog, m.h, m.luz)])

SpecPMV == Init /\ [][Medir]_vars

\* The same program explored over a run of short alarm ticks
InitAlarma == Arranque(BootAlarma)

NextAlarma ==
  \/ LoopMenu(BootAlarma, HorizonAlarma)
  \/ LoopLogin(BootAlarma, HorizonAlarma, PinWaits)
  \/ LoopConfort(BootAlarma, HorizonAlarma, PMVAlarma, ComfortKeys, TicksAlarma)

SpecAlarma == InitAlarma /\ [][NextAlarma]_vars

----------------------------------------------------------------------------
\* Properties.  A Comfort tick is an iteration with op = "confort"; it read
\* the PMV value pmv, started at tTick with the band bandaPrevia, and read the
\* key tecla.  It stayed in Comfort when estado = "CONFORT" after it.

Orden(b) ==
  CASE b = "PMV_MUY_BAJO" -> 0 [] b = "PMV_BAJO" -> 1 [] b = "PMV_CONFORT" -> 2
    [] b = "PMV_CALOR" -> 3 [] b = "PMV_MUY_CALOR" -> 4

Adyacentes(a, b) == Orden(a) - Orden(b) = 1 \/ Orden(b) - Orden(a) = 1

\* The band a PMV value selects when the previous band plays no part
BandaPorValor(p) ==
  IF p > 80 THEN "PMV_MUY_CALOR"
  ELSE IF p > 40 THEN "PMV_CALOR"
  ELSE IF p >= -40 THEN "PMV_CONFORT"
  ELSE IF p >= -80 THEN "PMV_BAJO"
  ELSE "PMV_MUY_BAJO"

EnRangoPegajoso(previa, p) ==
  \/ previa = "PMV_MUY_CALOR" /\ p >= 60 /\ p <= 80
  \/ previa = "PMV_MUY_BAJO" /\ p >= -80 /\ p <= -60

AnguloDeBanda(b) ==
  CASE b = "PMV_MUY_CALOR" -> 0 [] b = "PMV_CALOR" -> 45 [] b = "PMV_CONFORT" -> 90
    [] b = "PMV_BAJO" -> 135 [] b = "PMV_MUY_BAJO" -> 180

ColorDeBanda(b) ==
  CASE b = "PMV_MUY_CALOR" -> Rojo [] b = "PMV_CALOR" -> Amarillo
    [] b = "PMV_CONFORT" -> Verde [] b = "PMV_BAJO" -> Cian [] b = "PMV_MUY_BAJO" -> Azul

\* A silence window, 60 s of real time from the last dismiss, covers time t
EnSilencio(t) == silenceT >= 0 /\ t < silenceT + SilenceMs

\* C1: hysteresis stickiness.  A tick that starts in VeryHigh with a PMV in
\* [0.6, 0.8] ends in VeryHigh, a tick that goes from VeryHigh to High read a
\* PMV in (0.4, 0.6), and a tick that starts in VeryLow with a PMV in
\* [-0.8, -0.6] ends in VeryLow.
C1_Stickiness ==
  op = "confort" =>
    /\ (bandaPrevia = "PMV_MUY_CALOR" /\ pmv >= 60 /\ pmv <= 80
          => estadoPMVActual = "PMV_MUY_CALOR")
    /\ (bandaPrevia = "PMV_MUY_CALOR" /\ estadoPMVActual = "PMV_CALOR"
          => pmv > 40 /\ pmv < 60)
    /\ (bandaPrevia = "PMV_MUY_BAJO" /\ pmv >= -80 /\ pmv <= -60
          => estadoPMVActual = "PMV_MUY_BAJO")

C1_Witness ==
  /\ op = "confort" /\ bandaPrevia = "PMV_MUY_CALOR" /\ pmv = 65
  /\ estadoPMVActual = "PMV_MUY_CALOR" /\ ticks >= 3

\* C2: no chatter between adjacent bands.  When a tick has moved the band to
\* an adjacent band, the next tick, reading a PMV within 0.01 of the previous
\* reading, does not move the band back.
C2_NoChatter ==
  [][(/\ op = "confort" /\ estado = "CONFORT" /\ op' = "confort"
      /\ Adyacentes(bandaPrevia, estadoPMVActual)
      /\ pmv' - pmv <= 1 /\ pmv - pmv' <= 1)
     => estadoPMVActual' # bandaPrevia]_vars

C4_ActuatorMapping ==
  op = "confort" =>
    /\ relay = (estadoPMVActual \in {"PMV_CALOR", "PMV_MUY_CALOR"})
    /\ servoAnguloDeseado = AnguloDeBanda(estadoPMVActual)

C4_Witness ==
  /\ op = "confort" /\ bandaPrevia = "PMV_CALOR" /\ estadoPMVActual = "PMV_MUY_BAJO"
  /\ ~relay /\ servoAnguloDeseado = 180 /\ servoAnguloActual # 180

\* C5: servo anti-chatter.  Every move of the servo horn comes at least
\* 3000 ms after the previous one.
C5_ServoGap == gapOk

\* C6 as claimed: after a tick that stays in Comfort, an actual angle that
\* differs from the desired one means that fewer than 3000 ms had passed
\* since the last move of the servo horn when the tick ran.
C6_LagSincePhysicalMove ==
  (op = "confort" /\ estado = "CONFORT" /\ servoAnguloActual # servoAnguloDeseado)
    => tTick - lastMove < SERVO_DELAY

\* C6 amended: after a tick that stays in Comfort, an actual angle that
\* differs from the desired one means that fewer than 3000 ms had passed
\* since ultimoCambioServo (the last move by actualizarServo or the servo
\* reset on entering Comfort) when the tick's setActuador ran; so the first
\* tick that runs 3000 ms or more after ultimoCambioServo ends with the two
\* angles equal.
C6_LagSinceRecordedChange ==
  (op = "confort" /\ estado = "CONFORT" /\ servoAnguloActual # servoAnguloDeseado)
    => SubUL(tTick % ClockModulus, ultimoCambioServo) < SERVO_DELAY

C6_Witness ==
  /\ op = "confort" /\ estado = "CONFORT" /\ servoAnguloActual # servoAnguloDeseado
  /\ servoAnguloActual # 90

\* C7: alarm lifecycle.  After a tick without a key that stays in Comfort the
\* alarm is active exactly when the tick's PMV exceeds 0.7 and no silence
\* window covers the tick.
C7_AlarmLifecycle ==
  (op = "confort" /\ tecla = "none" /\ estado = "CONFORT")
    => (alarmActive <=> (pmv > PMV_ALARM_THRESHOLD /\ ~EnSilencio(tTick)))

\* C8: silence window.  After a dismiss at T no tick before T + 60000 ms ends
\* with the alarm active, and a tick without a key at or after T + 60000 ms
\* with PMV above 0.7 ends with the alarm active.
C8_SilenceWindow ==
  (op = "confort" /\ silenceT >= 0) =>
    /\ (tTick < silenceT + SilenceMs => ~alarmActive)
    /\ (tTick >= silenceT + SilenceMs /\ tecla = "none" /\ estado = "CONFORT"
        /\ pmv > PMV_ALARM_THRESHOLD => alarmActive)

\* C9: single colour owner.  In a tick the hysteresis engine writes the
\* colour only while both alert flags are clear, and the low indicator only
\* while the alarm flag is clear.
C9_ColorOwner ==
  op = "confort" =>
    \A i \in DOMAIN colorLog :
      /\ (colorLog[i][1] = "hysteresis" => ~colorLog[i][2] /\ ~colorLog[i][3])
      /\ (colorLog[i][1] = "low" => ~colorLog[i][2])

\* C10: colour follows the band.  After a tick that stays in Comfort with both
\* alerts idle, the colour is the band's colour.
C10_ColorFollowsBand ==
  (op = "confort" /\ estado = "CONFORT" /\ ~alarmActive /\ ~pmvBajoActive)
    => color = ColorDeBanda(estadoPMVActual)

\* The time bloqueoSistema spends after recording the lock start
SonidoBloqueo == 10 * 250

\* C11: lockout trigger and counter bound.  Between iterations the failure
\* counter is in 0..2.  A failed PIN check ends in Menu; when the counter was
\* 2 it locks the system, records the instant as lock start and resets the
\* counter to 0, otherwise it adds one to the counter and leaves the lock as
\* it was.  An unknown tag ends in Menu with the counter unchanged.
C11_LockoutTrigger ==
  /\ [](intentosFallidos \in 0..2)
  /\ [][/\ (op' = "login" /\ evento' = "clave-mala") =>
            /\ estado' = "MENU"
            /\ IF intentosFallidos = 2
               THEN /\ sistemaBloqueado' /\ intentosFallidos' = 0
                    /\ rLock' = now' - SonidoBloqueo
                    /\ tiempoBloqueo' = rLock' % ClockModulus
               ELSE /\ intentosFallidos' = intentosFallidos + 1
                    /\ sistemaBloqueado' = sistemaBloqueado
                    /\ tiempoBloqueo' = tiempoBloqueo
        /\ (op' = "login" /\ evento' = "tag-desconocido") =>
            /\ estado' = "MENU" /\ intentosFallidos' = intentosFallidos]_vars

C11_Witness ==
  /\ op = "login" /\ evento = "clave-mala" /\ sistemaBloqueado
  /\ intentosFallidos = 0 /\ rLock = now - SonidoBloqueo

\* C12: lockout preempts the session.  While the system is locked the session
\* mode is Menu: no iteration that runs with the lock set leaves Menu.
C12_LockoutPreempts == sistemaBloqueado => estado = "MENU"

\* C13: the lock is never cleared early.  With lock start S, the system is
\* locked in every state earlier than S + 15000 ms, and an iteration that
\* clears the lock started 15000 ms or more after S.
C13_NoEarlyUnlock ==
  /\ []((rLock >= 0 /\ now - rLock < DURACION_BLOQUEO) => sistemaBloqueado)
  /\ [][(sistemaBloqueado /\ ~sistemaBloqueado') => now - rLock >= DURACION_BLOQUEO]_vars

C13_Witness ==
  /\ op = "login" /\ evento = "clave-ok" /\ estado = "CONFORT"
  /\ sistemaBloqueado /\ now - rLock < DURACION_BLOQUEO

\* C14: lock auto-recovery.  An iteration that starts with the system locked
\* 15000 ms or more after lock start unlocks it and, when no key is read,
\* ends in Menu with no active user; and no PIN entry is still going on, with
\* the system locked, 15000 ms or more after lock start.
C14_AutoUnlock ==
  /\ [](~claveTarde)
  /\ [][(sistemaBloqueado /\ now - rLock >= DURACION_BLOQUEO) =>
          /\ ~sistemaBloqueado' /\ desbloqueo'
          /\ (tecla' = "none" => estado' = "MENU" /\ usuarioActivo' = 0)]_vars

\* C15: login success resets the comfort state.  After an iteration that goes
\* from Login to Comfort on a matching PIN the band is Neutral, both servo
\* angles are 90, the alarm is idle and not silenced and the low indicator is
\* idle.
C15_LoginResets ==
  (op = "login" /\ evento = "clave-ok") =>
    /\ estado = "CONFORT" /\ estadoPMVActual = "PMV_CONFORT"
    /\ servoAnguloActual = 90 /\ servoAnguloDeseado = 90
    /\ ~alarmActive /\ ~alarmSilenced /\ ~pmvBajoActive

\* C16: Comfort exit.  A tick that reads the exit key ends in Menu with no
\* active user, whichever branch it took; and an iteration that starts in
\* Comfort and ends elsewhere either read the exit key or was unlocked by
\* verificarDesbloqueo.
C16_ComfortExit ==
  /\ []((op = "confort" /\ tecla = "#") => (estado = "MENU" /\ usuarioActivo = 0))
  /\ [][(estado = "CONFORT" /\ estado' # "CONFORT")
          => ((op' = "confort" /\ tecla' = "#") \/ desbloqueo')]_vars

C16_Witness ==
  /\ op = "confort" /\ tecla = "#" /\ evento = "salida" /\ estado = "MENU"
  /\ pmv < PMV_BAJO_THRESHOLD /\ alarmSilenced

\* C17: alerts end with the Comfort session.  Whenever the session mode is
\* Menu or Login, the alarm and the low indicator are both idle.
C17_AlertsEndWithSession ==
  estado # "CONFORT" => (~alarmActive /\ ~pmvBajoActive)

\* C18: the active-user reference is set only by a successful
\* authentication.  It is null whenever the session mode is Menu, and an
\* iteration that makes it non-null matched a PIN or confirmed a registration.
C18_UserOnlyOnAuth ==
  /\ [](estado = "MENU" => usuarioActivo = 0)
  /\ [][(usuarioActivo = 0 /\ usuarioActivo' # 0)
          => evento' \in {"clave-ok", "registro-ok"}]_vars

\* C19: alarm blink cadence.  The tick that activates the alarm ends with the
\* blink phase false and the toggle time at the activation; a tick across
\* which the alarm stays active flips the phase once, and takes the tick's
\* instant as the toggle time, when 500 ms or more have passed since the
\* last toggle or the activation, and otherwise leaves the phase as it was.
C19_BlinkCadence ==
  /\ [][(~alarmActive /\ alarmActive') =>
          (~alarmToggleState' /\ rAlarm' = tTick')]_vars
  /\ [][(alarmActive /\ alarmActive' /\ op' = "confort") =>
          IF tTick' - rAlarm >= alarmInterval
          THEN alarmToggleState' = ~alarmToggleState /\ rAlarm' = tTick'
          ELSE alarmToggleState' = alarmToggleState /\ rAlarm' = rAlarm]_vars

C19_Witness ==
  /\ op = "confort" /\ alarmActive /\ ~alarmToggleState
  /\ tTick = rAlarm /\ ticks = 7 /\ now > ClockModulus

\* C20: wraparound-safe timing.  Every timing decision of an iteration (servo
\* cooldown, alarm and low-indicator blink intervals, lockout duration,
\* silence window) comes out as it would with an unbounded counter.
C20_WrapSafe == relojOk

\* C21: PMV is bounded and deterministic.  The index computed for every
\* sample is a number in [-2.0, 2.0], and it is the value the function gives
\* for that sample alone: equal samples give equal indices.
C21_Bounded ==
  /\ indice # NaN /\ indice >= 0 - 2 * Unidad /\ indice <= 2 * Unidad
  /\ indice = CalcularPMV(muestra.tDHT, muestra.tAnalog, muestra.h, muestra.luz)
  /\ (muestra = muestraPrevia => indice = indicePrevio)

C21_Witness ==
  /\ op = "medir" /\ indice = 2 * Unidad /\ indicePrevio = 0 - 2 * Unidad
  /\ muestraPrevia.tDHT = 250 /\ muestraPrevia.h = 50 /\ muestraPrevia.tAnalog = 0

\* C22: PMV monotonicity.  Of two samples that differ only in the primary
\* temperature, or only in the secondary temperature, the one with the lower
\* temperature has the lower or equal index.
C22_Monotone ==
  /\ (/\ muestraPrevia.tAnalog = muestra.tAnalog /\ muestraPrevia.h = muestra.h
      /\ muestraPrevia.luz = muestra.luz /\ muestraPrevia.tDHT <= muestra.tDHT)
       => indicePrevio <= indice
  /\ (/\ muestraPrevia.tDHT = muestra.tDHT /\ muestraPrevia.h = muestra.h
      /\ muestraPrevia.luz = muestra.luz /\ muestraPrevia.tAnalog <= muestra.tAnalog)
       => indicePrevio <= indice

C22_Witness ==
  /\ op = "medir" /\ muestraPrevia.tAnalog = muestra.tAnalog
  /\ muestraPrevia.h = muestra.h /\ muestraPrevia.luz = muestra.luz
  /\ muestraPrevia.tDHT = 229 /\ muestra.tDHT = 230 /\ indicePrevio < indice

\* C23: the two alerts are mutually exclusive.  In no state between
\* iterations are the alarm and the low indicator both active.
C23_AlertExclusion == ~(alarmActive /\ pmvBajoActive)

C23_Witness ==
  /\ op = "confort" /\ estado = "CONFORT" /\ bandaPrevia = "PMV_MUY_CALOR"
  /\ silenceT < 0 /\ pmv < PMV_BAJO_THRESHOLD /\ pmvBajoActive /\ ~alarmActive

\* C24: alerts agree with the band and the relay.  After a tick that stays in
\* Comfort, an active alarm comes with band High or VeryHigh and the relay
\* on, an active low indicator with band Low or VeryLow and the relay off.
C24_AlertsAgree ==
  (op = "confort" /\ estado = "CONFORT") =>
    /\ (alarmActive => (estadoPMVActual \in {"PMV_CALOR", "PMV_MUY_CALOR"} /\ relay))
    /\ (pmvBajoActive => (estadoPMVActual \in {"PMV_BAJO", "PMV_MUY_BAJO"} /\ ~relay))

C24_Witness ==
  /\ op = "confort" /\ estado = "CONFORT" /\ bandaPrevia = "PMV_MUY_BAJO"
  /\ pmv = 75 /\ alarmActive /\ estadoPMVActual = "PMV_CALOR" /\ relay

====
